---- MODULE Spec2Model ----
(***************************************************************************)
(* Model of the "open in Cursor" extension: the two folder-browsing        *)
(* commands (the ~/Work variant with workspace-file resolution and a       *)
(* "clear recents" item, and the ~/Documents variant), their shared zustand *)
(* store, and the LocalStorage record "recentFolders" both commands use.   *)
(*                                                                         *)
(* LocalStorage.getItem / setItem / removeItem return promises; the code   *)
(* awaits getItem only.  A storage call is modelled as a message to the    *)
(* host, served in issue order by HostStep.                                *)
(***************************************************************************)
EXTENDS Naturals, Sequences, FiniteSets, TLC

VARIABLES
    command,        \* which command runs in the current process
    folders,        \* store.folders
    recentFolders,  \* store.recentFolders
    isLoading,      \* store.isLoading
    loadPc,         \* position of loadFolders: "start", "getItem", "done"
    loadResult,     \* history: what loadFolders got from getItem
    getReply,       \* answer of the host to the pending getItem
    storage,        \* the LocalStorage item under RECENT_FOLDERS_KEY
    ipc,            \* storage calls issued to the host, not yet served
    handlers,       \* the action handlers running in this process, in start order
    lastDone,       \* history: how the handler that finished last went
    nacts,          \* user actions accepted so far (all processes)
    written,        \* history: the list whose serialisation the item holds
    mutated,        \* history: addRecentFolder/clearRecentFolders ran in this process
    list,           \* store-only specification: the recency list
    inserted,       \* store-only specification: the folders inserted, in order
    selection,      \* the "open selection" command: its position, input and effects
    scan            \* scanner-only specification: the roots and the folders found

vars == <<command, folders, recentFolders, isLoading, loadPc, loadResult, getReply,
          storage, ipc, handlers, lastDone, nacts, written, mutated, list, inserted, selection, scan>>

appVars == <<command, folders, recentFolders, isLoading, loadPc, loadResult, getReply,
             storage, ipc, handlers, lastDone, nacts, written, mutated>>

-----------------------------------------------------------------------------
(* Bounds *)

\* user actions (open, clear) accepted in one behaviour
MaxActions == 2

\* fair specification: user actions (open, clear) accepted in one behaviour
MaxLiveActions == 1

\* store-only specification: folders that can be inserted
PoolSize == 12

\* store-only specification: inserts of a folder that was inserted before
MaxRepeats == 1

\* store-call specification: calls of the store's methods in one behaviour
MaxCalls == 3

\* "open selection" command: lines osascript prints
MaxSelected == 3

\* scanner specification: roots handed to the scan
MaxRoots == 2

-----------------------------------------------------------------------------
(* Program constants *)

MAX_RECENT_FOLDERS == 10

HOME_DIR == "/home"

join(dir, name) == dir \o "/" \o name

WORK_DIR == join(HOME_DIR, "Work")

DOCUMENTS_DIR == join(HOME_DIR, "Documents")

Commands == {"work", "documents"}

SEARCH_PATHS(cmd) ==
    IF cmd = "work"
    THEN << join(WORK_DIR, "bmads"), join(WORK_DIR, "pet-projects"),
            join(WORK_DIR, "projects"), join(WORK_DIR, "raycast-extensions") >>
    ELSE << join(DOCUMENTS_DIR, "Projects"), join(DOCUMENTS_DIR, "raycast-extensions"),
            join(DOCUMENTS_DIR, "test-code") >>

-----------------------------------------------------------------------------
(* The file system the commands read (fs.existsSync, fs.readdirSync) *)

Dir(n)  == [name |-> n, isDirectory |-> TRUE,  isFile |-> FALSE]
File(n) == [name |-> n, isDirectory |-> FALSE, isFile |-> TRUE]
Link(n) == [name |-> n, isDirectory |-> FALSE, isFile |-> FALSE]

\* directory path -> [readable, entries]; a path outside the domain does not exist
Disk ==
    ( join(WORK_DIR, "pet-projects") :>
        [readable |-> TRUE, entries |-> << File("notes.txt"), Dir("p1") >>] )
 @@ ( join(WORK_DIR, "projects") :>
        [readable |-> TRUE, entries |-> << Dir("a"), Link("z"), Dir("b") >>] )
 @@ ( join(WORK_DIR, "raycast-extensions") :>
        [readable |-> TRUE, entries |-> << Dir("r1") >>] )
 @@ ( join(DOCUMENTS_DIR, "Projects") :>
        [readable |-> TRUE, entries |-> << Dir("d1") >>] )
 @@ ( join(DOCUMENTS_DIR, "raycast-extensions") :>
        [readable |-> TRUE, entries |-> << File("README.md"), Dir("r1") >>] )
 @@ ( join(DOCUMENTS_DIR, "test-code") :>
        [readable |-> FALSE, entries |-> << Dir("t1") >>] )
 @@ ( join(join(WORK_DIR, "pet-projects"), "p1") :>
        [readable |-> FALSE, entries |-> << File("p1.code-workspace") >>] )
 @@ ( join(join(WORK_DIR, "projects"), "a") :>
        [readable |-> TRUE, entries |-> << File("main.ts"), File("a.code-workspace") >>] )
 @@ ( join(join(WORK_DIR, "projects"), "b") :>
        [readable |-> TRUE, entries |-> << Dir("old.code-workspace"), File("x.code-workspace"),
                                           File("y.code-workspace") >>] )
 @@ ( join(join(WORK_DIR, "raycast-extensions"), "r1") :>
        [readable |-> TRUE, entries |-> << Dir("nested") >>] )
 @@ ( join(join(join(WORK_DIR, "raycast-extensions"), "r1"), "nested") :>
        [readable |-> TRUE, entries |-> << File("deep.code-workspace") >>] )
 @@ ( join(join(DOCUMENTS_DIR, "Projects"), "d1") :>
        [readable |-> TRUE, entries |-> << File("d1.code-workspace") >>] )
 @@ ( join(join(DOCUMENTS_DIR, "raycast-extensions"), "r1") :>
        [readable |-> TRUE, entries |-> << >>] )

existsSync(p) == p \in DOMAIN Disk

\* fs.readdirSync(p, {withFileTypes: true}): throws when p is missing or unreadable
readdirSync(p) ==
    IF existsSync(p) /\ Disk[p].readable
    THEN [threw |-> FALSE, entries |-> Disk[p].entries]
    ELSE [threw |-> TRUE,  entries |-> << >>]

-----------------------------------------------------------------------------
(* Folder scanner and workspace resolver *)

Folder(n, p) == [name |-> n, path |-> p]

\* map without the isDirectory() filter
RECURSIVE MapEntries_AnyKind(_, _)
MapEntries_AnyKind(entries, dirPath) ==
    IF entries = << >> THEN << >>
    ELSE << Folder(Head(entries).name, join(dirPath, Head(entries).name)) >>
            \o MapEntries_AnyKind(Tail(entries), dirPath)

\* Array.prototype.filter / map over a sequence
RECURSIVE MapEntries(_, _)
MapEntries(entries, dirPath) ==
    IF entries = << >> THEN << >>
    ELSE LET e == Head(entries) IN
         (IF e.isDirectory THEN << Folder(e.name, join(dirPath, e.name)) >> ELSE << >>)
            \o MapEntries(Tail(entries), dirPath)

getFoldersFromPath(dirPath) ==
    IF ~existsSync(dirPath) THEN << >>
    ELSE LET r == readdirSync(dirPath) IN
         IF r.threw THEN << >> ELSE MapEntries(r.entries, dirPath)

\* SEARCH_PATHS.flatMap(getFoldersFromPath)
RECURSIVE flatMapFolders(_)
flatMapFolders(paths) ==
    IF paths = << >> THEN << >>
    ELSE getFoldersFromPath(Head(paths)) \o flatMapFolders(Tail(paths))

allFolders(cmd) == flatMapFolders(SEARCH_PATHS(cmd))

WorkspaceSuffix == ".code-workspace"

\* String.prototype.endsWith
endsWith(str, suffix) ==
    /\ Len(str) >= Len(suffix)
    /\ SubSeq(str, Len(str) - Len(suffix) + 1, Len(str)) = suffix

\* find() without the isFile() test
RECURSIVE findEntry_AnyKind(_)
findEntry_AnyKind(entries) ==
    IF entries = << >> THEN [found |-> FALSE, name |-> ""]
    ELSE LET e == Head(entries) IN
         IF endsWith(e.name, WorkspaceSuffix)
         THEN [found |-> TRUE, name |-> e.name]
         ELSE findEntry_AnyKind(Tail(entries))

\* Array.prototype.find: the first entry that is a file with the suffix, or none
RECURSIVE findEntry(_)
findEntry(entries) ==
    IF entries = << >> THEN [found |-> FALSE, name |-> ""]
    ELSE LET e == Head(entries) IN
         IF e.isFile /\ endsWith(e.name, WorkspaceSuffix)
         THEN [found |-> TRUE, name |-> e.name]
         ELSE findEntry(Tail(entries))

\* null is modelled as [found |-> FALSE]
findWorkspaceFileInFolder(folderPath) ==
    IF ~existsSync(folderPath) THEN [found |-> FALSE, path |-> ""]
    ELSE LET r == readdirSync(folderPath) IN
         IF r.threw THEN [found |-> FALSE, path |-> ""]
         ELSE LET w == findEntry(r.entries) IN
              IF w.found THEN [found |-> TRUE, path |-> join(folderPath, w.name)]
              ELSE [found |-> FALSE, path |-> ""]

\* the path openInCursor hands to the launcher
openTarget(cmd, folder) ==
    IF cmd = "work"
    THEN LET workspaceFile == findWorkspaceFileInFolder(folder.path) IN
         IF workspaceFile.found THEN workspaceFile.path ELSE folder.path
    ELSE folder.path

-----------------------------------------------------------------------------
(* JSON.stringify / JSON.parse of the recency list, as token sequences *)

stringifyFolder(f) == << "{", "name", f.name, "path", f.path, "}" >>

RECURSIVE stringifyItems(_)
stringifyItems(fs) ==
    IF fs = << >> THEN << >>
    ELSE stringifyFolder(Head(fs)) \o stringifyItems(Tail(fs))

JSONstringify(fs) == << "[" >> \o stringifyItems(fs) \o << "]" >>

ObjectLen == Len(stringifyFolder(Folder("", "")))

\* the objects of an array body after the ones in acc; ok is FALSE on a syntax
\* error
RECURSIVE parseItems(_, _)
parseItems(toks, acc) ==
    IF toks = << >> THEN [ok |-> TRUE, value |-> acc]
    ELSE IF /\ Len(toks) >= ObjectLen
            /\ toks[1] = "{" /\ toks[2] = "name" /\ toks[4] = "path" /\ toks[6] = "}"
         THEN parseItems(SubSeq(toks, ObjectLen + 1, Len(toks)),
                         Append(acc, Folder(toks[3], toks[5])))
         ELSE [ok |-> FALSE, value |-> << >>]

\* a tolerant parser: the objects read before the syntax error are returned
RECURSIVE parseItemsLenient(_)
parseItemsLenient(toks) ==
    IF /\ Len(toks) >= ObjectLen
       /\ toks[1] = "{" /\ toks[2] = "name" /\ toks[4] = "path" /\ toks[6] = "}"
    THEN << Folder(toks[3], toks[5]) >>
            \o parseItemsLenient(SubSeq(toks, ObjectLen + 1, Len(toks)))
    ELSE << >>

JSONparse_Lenient(text) ==
    IF text # << >> /\ Head(text) = "["
    THEN [ok |-> TRUE, value |-> parseItemsLenient(Tail(text))]
    ELSE [ok |-> FALSE, value |-> << >>]

\* JSON.parse: ok is FALSE when it throws a SyntaxError
JSONparse(text) ==
    IF Len(text) >= 2 /\ Head(text) = "[" /\ text[Len(text)] = "]"
    THEN parseItems(SubSeq(text, 2, Len(text) - 1), << >>)
    ELSE [ok |-> FALSE, value |-> << >>]

-----------------------------------------------------------------------------
(* The store *)

Min(a, b) == IF a < b THEN a ELSE b

\* Array.prototype.slice(0, n)
slice0(s, n) == SubSeq(s, 1, Min(n, Len(s)))

\* state.recentFolders.filter((f) => f.path !== folder.path)
filterOut(recent, folder) == SelectSeq(recent, LAMBDA g : g.path # folder.path)

\* addRecentFolder without the filter: the folder is prepended, never deduplicated
updatedRecentFolders_NoFilter(recent, folder) ==
    slice0(<< folder >> \o recent, MAX_RECENT_FOLDERS)

\* addRecentFolder without the slice: the list is never truncated
updatedRecentFolders_NoSlice(recent, folder) ==
    << folder >> \o filterOut(recent, folder)

\* addRecentFolder deduplicating by name instead of path
updatedRecentFolders_FilterByName(recent, folder) ==
    slice0(<< folder >> \o SelectSeq(recent, LAMBDA g : g.name # folder.name),
           MAX_RECENT_FOLDERS)

\* addRecentFolder with the capacity it had before it was raised to 10
updatedRecentFolders_OldCap(recent, folder) ==
    slice0(<< folder >> \o filterOut(recent, folder), 5)

\* the list addRecentFolder computes
updatedRecentFolders(recent, folder) ==
    slice0(<< folder >> \o filterOut(recent, folder), MAX_RECENT_FOLDERS)

Paths(s) == { s[i].path : i \in 1..Len(s) }

\* the "All Folders" section listing every scanned folder
otherFolders_Unfiltered(fs, recent) == fs

\* useMemo: folders.filter((f) => !recentSet.has(f.path))
otherFolders(fs, recent) == SelectSeq(fs, LAMBDA f : f.path \notin Paths(recent))

NoItem == [present |-> FALSE, text |-> << >>]
Item(text) == [present |-> TRUE, text |-> text]

-----------------------------------------------------------------------------
(* Initial states *)

\* folders earlier runs opened that have since been deleted from the disk
GoneFolders ==
    << Folder("g1", join(join(WORK_DIR, "projects"), "g1")),
       Folder("g2", join(join(WORK_DIR, "projects"), "g2")),
       Folder("g3", join(join(WORK_DIR, "bmads"), "g3")),
       Folder("g4", join(join(DOCUMENTS_DIR, "Projects"), "g4")),
       Folder("g5", join(join(DOCUMENTS_DIR, "test-code"), "g5")) >>

\* the folders earlier runs of the two commands opened, oldest first
PastFolders == GoneFolders \o allFolders("work") \o allFolders("documents")

\* the list earlier runs leave behind after opening the first k of PastFolders
RECURSIVE StoredAfter(_)
StoredAfter(k) ==
    IF k = 0 THEN << >>
    ELSE updatedRecentFolders(StoredAfter(k - 1), PastFolders[k])

\* how many folders the earlier runs opened, when they left a record
StoredCounts == {1, MAX_RECENT_FOLDERS - 1, MAX_RECENT_FOLDERS}

\* a record cut short: JSON.parse throws on it
CorruptText == << "[" >> \o stringifyFolder(GoneFolders[1]) \o << "{", "name" >>

NoReply == [ready |-> FALSE, rejected |-> FALSE, item |-> NoItem]

NoFolder == Folder("", "")

NoneDone == [kind |-> "none", launched |-> "none", notified |-> {}, added |-> FALSE]

\* the "open selection" command is not running
NoSelection ==
    [pc |-> "idle", stdout |-> "", items |-> << >>, launches |-> << >>, toasts |-> << >>]

\* the scanner-only specification is not running
NoScan ==
    [pc |-> "idle", roots |-> << >>, result |-> << >>, folder |-> NoFolder, target |-> ""]

\* the store as create() builds it, before the effect runs
InitProcess ==
    /\ folders = << >>
    /\ recentFolders = << >>
    /\ isLoading = TRUE
    /\ loadPc = "start"
    /\ loadResult = "none"
    /\ getReply = NoReply
    /\ ipc = << >>
    /\ handlers = << >>
    /\ lastDone = NoneDone
    /\ mutated = FALSE

InitStorage ==
    \/ /\ storage = NoItem
       /\ written = [by |-> "none", list |-> << >>]
    \/ /\ storage = Item(CorruptText)
       /\ written = [by |-> "none", list |-> << >>]
    \/ \E k \in StoredCounts :
          /\ storage = Item(JSONstringify(StoredAfter(k)))
          /\ written = [by |-> "addRecentFolder", list |-> StoredAfter(k)]

Init ==
    /\ command \in Commands
    /\ InitProcess
    /\ InitStorage
    /\ nacts = 0
    /\ list = << >>
    /\ inserted = << >>
    /\ selection = NoSelection
    /\ scan = NoScan

-----------------------------------------------------------------------------
(* loadFolders *)

\* loadFolders with setIsLoading(false) before the await instead of in finally
LoadStart_ReadyEarly ==
    /\ loadPc = "start"
    /\ folders' = allFolders(command)
    /\ ipc' = Append(ipc, [op |-> "getItem", text |-> << >>, list |-> << >>])
    /\ loadPc' = "getItem"
    /\ isLoading' = FALSE
    /\ UNCHANGED <<command, recentFolders, loadResult, getReply, storage,
                   handlers, lastDone, nacts, written, mutated, list, inserted,
                   selection, scan>>

\* the effect up to the await: scan, setFolders, LocalStorage.getItem issued
LoadStart ==
    /\ loadPc = "start"
    /\ folders' = allFolders(command)
    /\ ipc' = Append(ipc, [op |-> "getItem", text |-> << >>, list |-> << >>])
    /\ loadPc' = "getItem"
    /\ UNCHANGED <<command, recentFolders, isLoading, loadResult, getReply, storage,
                   handlers, lastDone, nacts, written, mutated, list, inserted, selection, scan>>

\* the host serves the oldest storage call; a getItem may be rejected
HostStep ==
    /\ ipc # << >>
    /\ LET m == Head(ipc) IN
         /\ ipc' = Tail(ipc)
         /\ CASE m.op = "getItem" ->
                   /\ \E rej \in BOOLEAN :
                         getReply' = [ready |-> TRUE, rejected |-> rej,
                                      item |-> IF rej THEN NoItem ELSE storage]
                   /\ UNCHANGED <<storage, written>>
              [] m.op = "setItem" ->
                   /\ storage' = Item(m.text)
                   /\ written' = [by |-> "addRecentFolder", list |-> m.list]
                   /\ UNCHANGED getReply
              [] m.op = "removeItem" ->
                   /\ storage' = NoItem
                   /\ written' = [by |-> "none", list |-> << >>]
                   /\ UNCHANGED getReply
    /\ UNCHANGED <<command, folders, recentFolders, isLoading, loadPc, loadResult,
                   handlers, lastDone, nacts, mutated, list, inserted, selection, scan>>

\* the catch block of loadFolders ran: the "Error reading folders" toast was shown
LoadToast == loadResult \in {"rejected", "malformed"}

\* `if (storedRecentFolders)`: undefined and "" are falsy
truthy(item) == item.present /\ item.text # << >>

\* the effect after the await: parse, setRecentFolders, catch, finally
LoadResume ==
    /\ loadPc = "getItem"
    /\ getReply.ready
    /\ LET parsed == JSONparse(getReply.item.text) IN
         IF getReply.rejected
         THEN /\ loadResult' = "rejected"
              /\ UNCHANGED recentFolders
         ELSE IF truthy(getReply.item)
         THEN IF parsed.ok
              THEN /\ recentFolders' = parsed.value
                   /\ loadResult' = "parsed"
              ELSE /\ loadResult' = "malformed"
                   /\ UNCHANGED recentFolders
         ELSE /\ loadResult' = "missing"
              /\ UNCHANGED recentFolders
    /\ isLoading' = FALSE
    /\ loadPc' = "done"
    /\ getReply' = NoReply
    /\ UNCHANGED <<command, folders, storage, ipc, handlers, lastDone, nacts, written,
                   mutated, list, inserted, selection, scan>>

-----------------------------------------------------------------------------
(* Store operations *)

\* addRecentFolder persisting state.recentFolders instead of the updated list
addRecentFolder_PersistStale(folder) ==
    LET updated == updatedRecentFolders(recentFolders, folder) IN
    /\ recentFolders' = updated
    /\ ipc' = Append(ipc, [op |-> "setItem", text |-> JSONstringify(recentFolders),
                           list |-> updated])
    /\ mutated' = TRUE

\* addRecentFolder: set() with the updated list; setItem is issued, not awaited
addRecentFolder(folder) ==
    LET updated == updatedRecentFolders(recentFolders, folder) IN
    /\ recentFolders' = updated
    /\ ipc' = Append(ipc, [op |-> "setItem", text |-> JSONstringify(updated),
                           list |-> updated])
    /\ mutated' = TRUE

\* clearRecentFolders that resets the memory and leaves the stored item alone
clearRecentFolders_KeepRecord ==
    /\ ipc' = ipc
    /\ recentFolders' = << >>
    /\ mutated' = TRUE

\* clearRecentFolders: removeItem is issued, not awaited; set({recentFolders: []})
clearRecentFolders ==
    /\ ipc' = Append(ipc, [op |-> "removeItem", text |-> << >>, list |-> << >>])
    /\ recentFolders' = << >>
    /\ mutated' = TRUE

-----------------------------------------------------------------------------
(* Action handlers *)

\* the items the list renders with an "Open in Cursor" action
Rendered == recentFolders \o otherFolders(folders, recentFolders)

\* the rendered items the user picks: of the "Recent Folders" section the first,
\* the second and the last, of the "All Folders" section any
Picks ==
    { i \in 1..Len(Rendered) : i \in {1, 2, Len(recentFolders)} \/ i > Len(recentFolders) }

\* openInCursor up to its first await: the launcher (open / exec cursor) is started
OpenStart(f) ==
    /\ loadPc # "start"
    /\ nacts < MaxActions
    /\ nacts' = nacts + 1
    /\ handlers' = Append(handlers,
           [kind |-> "open", folder |-> f, target |-> openTarget(command, f),
            pc |-> "launch", launched |-> "pending", notified |-> {}])
    /\ UNCHANGED <<command, folders, recentFolders, isLoading, loadPc, loadResult,
                   getReply, storage, ipc, lastDone, written, mutated, list, inserted, selection, scan>>

\* the launcher's promise settles; showToast is called and awaited
LaunchReturn(i, ok) ==
    /\ i \in DOMAIN handlers
    /\ handlers[i].pc = "launch"
    /\ handlers' = [handlers EXCEPT ![i] =
           IF ok
           THEN [@ EXCEPT !.pc = "toastSuccess", !.launched = "ok",
                          !.notified = @ \cup {"success"}]
           ELSE [@ EXCEPT !.pc = "toastFailure", !.launched = "failed",
                          !.notified = @ \cup {"failure"}]]
    /\ UNCHANGED <<command, folders, recentFolders, isLoading, loadPc, loadResult,
                   getReply, storage, ipc, lastDone, nacts, written, mutated, list,
                   inserted, selection, scan>>

\* the handlers without the i-th
Remove(hs, i) == SubSeq(hs, 1, i - 1) \o SubSeq(hs, i + 1, Len(hs))

Done(h, added) ==
    [kind |-> h.kind, launched |-> h.launched, notified |-> h.notified, added |-> added]

\* addRecentFolder moved to a finally block: reached however the toasts settle
reachesAdd_Finally(h, ok) ==
    h.kind = "open" /\ (h.pc = "toastFailure" \/ (h.pc = "toastSuccess" /\ ok))

\* an awaited showToast settles with `ok`: is the addRecentFolder call after it
\* in the try block reached?
reachesAdd(h, ok) == h.kind = "open" /\ h.pc = "toastSuccess" /\ ok

\* an awaited showToast settles
ToastReturn(i, ok) ==
    /\ i \in DOMAIN handlers
    /\ LET h == handlers[i] IN
         IF reachesAdd(h, ok)
         THEN /\ addRecentFolder(h.folder)
              /\ handlers' = Remove(handlers, i)
              /\ lastDone' = Done(h, TRUE)
         ELSE IF h.kind = "open" /\ h.pc = "toastSuccess"
         THEN \* the success toast rejected: catch, the failure toast is awaited
              /\ handlers' = [handlers EXCEPT ![i] =
                     [@ EXCEPT !.pc = "toastFailure", !.notified = @ \cup {"failure"}]]
              /\ UNCHANGED <<recentFolders, ipc, mutated, lastDone>>
         ELSE \* the last await of the handler
              /\ handlers' = Remove(handlers, i)
              /\ lastDone' = Done(h, FALSE)
              /\ UNCHANGED <<recentFolders, ipc, mutated>>
    /\ UNCHANGED <<command, folders, isLoading, loadPc, loadResult, getReply, storage,
                   nacts, written, list, inserted, selection, scan>>

\* handleClearRecentFolders up to its await; the item is rendered by the Work
\* command only, and only while recentFolders is not empty
ClearStart ==
    /\ command = "work"
    /\ recentFolders # << >>
    /\ nacts < MaxActions
    /\ nacts' = nacts + 1
    /\ clearRecentFolders
    /\ handlers' = Append(handlers,
           [kind |-> "clear", folder |-> NoFolder, target |-> "",
            pc |-> "toastSuccess", launched |-> "none", notified |-> {"success"}])
    /\ UNCHANGED <<command, folders, isLoading, loadPc, loadResult, getReply, storage,
                   lastDone, written, list, inserted, selection, scan>>

\* the storage calls already issued are served by the host in issue order
RECURSIVE Served(_, _)
Served(st, calls) ==
    IF calls = << >> THEN st
    ELSE LET m == Head(calls) IN
         Served(CASE m.op = "setItem" ->
                       [storage |-> Item(m.text),
                        written |-> [by |-> "addRecentFolder", list |-> m.list]]
                  [] m.op = "removeItem" ->
                       [storage |-> NoItem, written |-> [by |-> "none", list |-> << >>]]
                  [] OTHER -> st,
                Tail(calls))

\* the command is closed and one of the commands is launched: a new process,
\* a new store; the handlers of the old process are gone
Restart ==
    /\ loadPc # "start"
    /\ command' \in Commands
    /\ LET st == Served([storage |-> storage, written |-> written], ipc) IN
         /\ storage' = st.storage
         /\ written' = st.written
    /\ folders' = << >>
    /\ recentFolders' = << >>
    /\ isLoading' = TRUE
    /\ loadPc' = "start"
    /\ loadResult' = "none"
    /\ getReply' = NoReply
    /\ ipc' = << >>
    /\ handlers' = << >>
    /\ lastDone' = NoneDone
    /\ mutated' = FALSE
    /\ UNCHANGED <<nacts, list, inserted, selection, scan>>

\* the user picks a rendered item and runs its "Open in Cursor" action
Open == \E i \in Picks : OpenStart(Rendered[i])

Next ==
    \/ LoadStart
    \/ HostStep
    \/ LoadResume
    \/ Open
    \/ \E i \in 1..MaxActions, ok \in BOOLEAN : LaunchReturn(i, ok)
    \/ \E i \in 1..MaxActions, ok \in BOOLEAN : ToastReturn(i, ok)
    \/ ClearStart
    \/ Restart

Spec == Init /\ [][Next]_vars

NextLive ==
    \/ LoadStart
    \/ HostStep
    \/ LoadResume
    \/ nacts < MaxLiveActions /\ Open
    \/ nacts < MaxLiveActions /\ ClearStart
    \/ \E i \in 1..MaxActions, ok \in BOOLEAN : LaunchReturn(i, ok)
    \/ \E i \in 1..MaxActions, ok \in BOOLEAN : ToastReturn(i, ok)

\* one process with the user acting on it: the effect runs once
\* the component is mounted, the host answers every storage call, and the
\* continuation of an answered await is run
SpecLive ==
    /\ Init /\ [][NextLive]_vars
    /\ WF_vars(LoadStart)
    /\ WF_vars(HostStep)
    /\ WF_vars(LoadResume)

-----------------------------------------------------------------------------
(* Store-only specification: addRecentFolder's list, applied to a sequence  *)
(* of folders                                                              *)

\* folder i of the pool; 2k-1 and 2k have the same name under different roots
PoolFolder(i) ==
    LET n == "n" \o ToString((i + 1) \div 2) IN
    Folder(n, join(SEARCH_PATHS(IF i % 2 = 1 THEN "work" ELSE "documents")[1], n))

Unused == { i \in 1..PoolSize : PoolFolder(i).path \notin Paths(inserted) }

\* the next folder not inserted yet: the first insert picks the pool's first
\* or last folder, the later ones go on upwards or downwards from there
Fresh ==
    IF inserted = << >> THEN {1, PoolSize}
    ELSE IF inserted[1] = PoolFolder(1)
    THEN { i \in Unused : \A j \in Unused : i <= j }
    ELSE { i \in Unused : \A j \in Unused : i >= j }

Repeats == Len(inserted) - Cardinality(Paths(inserted))

InitStore ==
    /\ command = "work"
    /\ InitProcess
    /\ storage = NoItem
    /\ written = [by |-> "none", list |-> << >>]
    /\ nacts = 0
    /\ list = << >>
    /\ inserted = << >>
    /\ selection = NoSelection
    /\ scan = NoScan

Insert(f) ==
    /\ list' = updatedRecentFolders(list, f)
    /\ inserted' = Append(inserted, f)
    /\ UNCHANGED <<appVars, selection, scan>>

InsertFresh == \E i \in Fresh : Insert(PoolFolder(i))

InsertAgain ==
    /\ Repeats < MaxRepeats
    /\ \E i \in 1..Len(list) : Insert(list[i])

NextStore == InsertFresh \/ InsertAgain

SpecStore == InitStore /\ [][NextStore]_vars

------------------------------------------------------------------------------
(* The store's methods called in any order, after the load *)

\* the Work command is Ready with the list of an earlier run loaded
InitCalls ==
    /\ command = "work"
    /\ folders = allFolders(command)
    /\ \E k \in StoredCounts :
          /\ recentFolders = StoredAfter(k)
          /\ storage = Item(JSONstringify(StoredAfter(k)))
          /\ written = [by |-> "addRecentFolder", list |-> StoredAfter(k)]
    /\ isLoading = FALSE
    /\ loadPc = "done"
    /\ loadResult = "parsed"
    /\ getReply = NoReply
    /\ ipc = << >>
    /\ handlers = << >>
    /\ lastDone = NoneDone
    /\ mutated = FALSE
    /\ nacts = 0
    /\ list = << >>
    /\ inserted = << >>
    /\ selection = NoSelection
    /\ scan = NoScan

\* handleClearRecentFolders invoked whatever the list holds
ClearCall ==
    /\ nacts < MaxCalls
    /\ nacts' = nacts + 1
    /\ clearRecentFolders
    /\ handlers' = Append(handlers,
           [kind |-> "clear", folder |-> NoFolder, target |-> "",
            pc |-> "toastSuccess", launched |-> "none", notified |-> {"success"}])
    /\ UNCHANGED <<command, folders, isLoading, loadPc, loadResult, getReply, storage,
                   lastDone, written, list, inserted, selection, scan>>

\* addRecentFolder called with a scanned folder
AddCall ==
    /\ nacts < MaxCalls
    /\ nacts' = nacts + 1
    /\ \E i \in 1..Len(folders) : addRecentFolder(folders[i])
    /\ UNCHANGED <<command, folders, isLoading, loadPc, loadResult, getReply, storage,
                   handlers, lastDone, written, list, inserted, selection, scan>>

NextCalls ==
    \/ ClearCall
    \/ AddCall
    \/ HostStep
    \/ \E i \in 1..MaxCalls, ok \in BOOLEAN : ToastReturn(i, ok)

SpecCalls == InitCalls /\ [][NextCalls]_vars

------------------------------------------------------------------------------
(* The "open Finder selection" command *)

isSpace(c) == c \in {" ", "\n", "\t"}

RECURSIVE trimStart(_)
trimStart(str) ==
    IF Len(str) > 0 /\ isSpace(SubSeq(str, 1, 1))
    THEN trimStart(SubSeq(str, 2, Len(str)))
    ELSE str

RECURSIVE trimEnd(_)
trimEnd(str) ==
    IF Len(str) > 0 /\ isSpace(SubSeq(str, Len(str), Len(str)))
    THEN trimEnd(SubSeq(str, 1, Len(str) - 1))
    ELSE str

\* String.prototype.trim
trim(str) == trimEnd(trimStart(str))

\* String.prototype.split("\n"); cur is the piece being read
RECURSIVE split(_, _)
split(str, cur) ==
    IF str = "" THEN << cur >>
    ELSE IF SubSeq(str, 1, 1) = "\n"
         THEN << cur >> \o split(SubSeq(str, 2, Len(str)), "")
         ELSE split(SubSeq(str, 2, Len(str)), cur \o SubSeq(str, 1, 1))

RECURSIVE mapTrim(_)
mapTrim(strs) ==
    IF strs = << >> THEN << >> ELSE << trim(Head(strs)) >> \o mapTrim(Tail(strs))

\* what getSelectedFinderItems makes of the stdout of osascript
parsePaths(stdout) ==
    LET output == trim(stdout) IN
    IF Len(output) = 0 THEN << >>
    ELSE SelectSeq(mapTrim(split(output, "")), LAMBDA path : Len(path) > 0)

\* lines the AppleScript can print: a file, a folder, a padded path, nothing
SelectedLines == {"/f.txt", "/d/", " /g ", ""}

RECURSIVE joinLines(_)
joinLines(ls) ==
    IF ls = << >> THEN ""
    ELSE IF Len(ls) = 1 THEN ls[1]
    ELSE ls[1] \o "\n" \o joinLines(Tail(ls))

\* osascript ends what the script returns with a newline
Stdouts ==
    { joinLines(ls) \o "\n" :
        ls \in UNION { [1..n -> SelectedLines] : n \in 0..MaxSelected } }

NoItemsToast ==
    [style |-> "Failure", title |-> "No items selected",
     message |-> "Please select a file or folder in Finder"]

FailedToast ==
    [style |-> "Failure", title |-> "Failed to get Finder selection", message |-> "error"]

\* the toast after the loop
SummaryToast(items) ==
    LET itemType == IF Len(items) = 1
                    THEN (IF endsWith(items[1], "/") THEN "folder" ELSE "file")
                    ELSE "items" IN
    [style |-> "Success",
     title |-> "Opened " \o ToString(Len(items)) \o " " \o itemType \o " in Cursor",
     message |-> IF Len(items) = 1 THEN items[1]
                 ELSE ToString(Len(items)) \o " items opened"]

\* no store, no list: the command has no view
InitSelection ==
    /\ command = "selection"
    /\ InitProcess
    /\ storage = NoItem
    /\ written = [by |-> "none", list |-> << >>]
    /\ nacts = 0
    /\ list = << >>
    /\ inserted = << >>
    /\ selection = NoSelection
    /\ scan = NoScan

\* Command runs up to the await of execAsync(osascript) in getSelectedFinderItems
SelectionStart ==
    /\ selection.pc = "idle"
    /\ selection' = [selection EXCEPT !.pc = "query"]
    /\ UNCHANGED <<appVars, list, inserted, scan>>

\* Command without the `items.length === 0` return
afterItems_NoEmptyCase(sel, items) ==
    IF Len(items) = 0
    THEN [sel EXCEPT !.items = items, !.pc = "toastSummary",
                     !.toasts = Append(@, SummaryToast(items))]
    ELSE [sel EXCEPT !.items = items, !.pc = "launch"]

\* after getSelectedFinderItems returned: the empty case, or the first launch
afterItems(sel, items) ==
    IF Len(items) = 0
    THEN [sel EXCEPT !.items = items, !.pc = "toastNone",
                     !.toasts = Append(@, NoItemsToast)]
    ELSE [sel EXCEPT !.items = items, !.pc = "launch"]

\* osascript printed stdout
QueryResolves ==
    /\ selection.pc = "query"
    /\ \E stdout \in Stdouts :
          selection' = afterItems([selection EXCEPT !.stdout = stdout], parsePaths(stdout))
    /\ UNCHANGED <<appVars, list, inserted, scan>>

\* execAsync rejected: the catch of getSelectedFinderItems returns []
QueryRejects ==
    /\ selection.pc = "query"
    /\ selection' = afterItems(selection, << >>)
    /\ UNCHANGED <<appVars, list, inserted, scan>>

\* a launch that failed ends the loop
afterLaunch_StopOnFailure(sel, ok) ==
    LET done == Append(sel.launches, [path |-> sel.items[Len(sel.launches) + 1], ok |-> ok]) IN
    IF Len(done) = Len(sel.items) \/ ~ok
    THEN [sel EXCEPT !.launches = done, !.pc = "toastSummary",
                     !.toasts = Append(@, SummaryToast(sel.items))]
    ELSE [sel EXCEPT !.launches = done]

\* the awaited open() of the current item settled: the next iteration, or the
\* toast after the loop
afterLaunch(sel, ok) ==
    LET done == Append(sel.launches, [path |-> sel.items[Len(sel.launches) + 1], ok |-> ok]) IN
    IF Len(done) = Len(sel.items)
    THEN [sel EXCEPT !.launches = done, !.pc = "toastSummary",
                     !.toasts = Append(@, SummaryToast(sel.items))]
    ELSE [sel EXCEPT !.launches = done]

\* open(itemPath, "Cursor") settles; a rejection is caught inside the loop
ItemLaunchReturn ==
    /\ selection.pc = "launch"
    /\ \E ok \in BOOLEAN : selection' = afterLaunch(selection, ok)
    /\ UNCHANGED <<appVars, list, inserted, scan>>

\* an awaited showToast of the try block settles; a rejection goes to the
\* outer catch
SelectionToastReturn ==
    /\ selection.pc \in {"toastNone", "toastSummary"}
    /\ \E ok \in BOOLEAN :
          selection' = IF ok
                       THEN [selection EXCEPT !.pc = "done"]
                       ELSE [selection EXCEPT !.pc = "toastFailed",
                                              !.toasts = Append(@, FailedToast)]
    /\ UNCHANGED <<appVars, list, inserted, scan>>

\* the showToast of the catch block settles; its rejection rejects Command
FailedToastReturn ==
    /\ selection.pc = "toastFailed"
    /\ \E ok \in BOOLEAN :
          selection' = [selection EXCEPT !.pc = IF ok THEN "done" ELSE "rejected"]
    /\ UNCHANGED <<appVars, list, inserted, scan>>

NextSelection ==
    \/ SelectionStart
    \/ QueryResolves
    \/ QueryRejects
    \/ ItemLaunchReturn
    \/ SelectionToastReturn
    \/ FailedToastReturn

SpecSelection == InitSelection /\ [][NextSelection]_vars

------------------------------------------------------------------------------
(* The scan and the workspace lookup on their own *)

RECURSIVE Range(_)
Range(seq) == IF seq = << >> THEN {} ELSE {Head(seq)} \cup Range(Tail(seq))

\* the roots either command scans: readable, unreadable and missing ones
RootPool == Range(SEARCH_PATHS("work")) \cup Range(SEARCH_PATHS("documents"))

InitScan ==
    /\ command = "work"
    /\ InitProcess
    /\ storage = NoItem
    /\ written = [by |-> "none", list |-> << >>]
    /\ nacts = 0
    /\ list = << >>
    /\ inserted = << >>
    /\ selection = NoSelection
    /\ \E n \in 1..MaxRoots : \E roots \in [1..n -> RootPool] :
          scan = [NoScan EXCEPT !.roots = roots]

\* SEARCH_PATHS.flatMap(getFoldersFromPath)
ScanRoots ==
    /\ scan.pc = "idle"
    /\ scan' = [scan EXCEPT !.pc = "scanned", !.result = flatMapFolders(scan.roots)]
    /\ UNCHANGED <<appVars, list, inserted, selection>>

\* the launch target of a folder: one the scan found, or one deleted since
ResolveTarget ==
    /\ scan.pc = "scanned"
    /\ \E f \in Range(scan.result) \cup Range(GoneFolders) :
          scan' = [scan EXCEPT !.pc = "resolved", !.folder = f,
                               !.target = openTarget("work", f)]
    /\ UNCHANGED <<appVars, list, inserted, selection>>

NextScan == ScanRoots \/ ResolveTarget

SpecScan == InitScan /\ [][NextScan]_vars

-----------------------------------------------------------------------------
(* Properties *)

NoDuplicatePaths(s) == \A i, j \in 1..Len(s) : i # j => s[i].path # s[j].path

\* the list the LocalStorage item holds, as a load would decode it
Persisted == IF storage.present THEN JSONparse(storage.text).value ELSE << >>

Last(s) == s[Len(s)]

\* the step is a call of addRecentFolder
IsAddStep ==
    /\ Len(ipc') = Len(ipc) + 1
    /\ Last(ipc').op = "setItem"

\* C1: in every reachable state of a folder-browsing command (after the load,
\* after any opens and clears) no two entries of recentFolders have the same path.
C1_NoDuplicates == NoDuplicatePaths(recentFolders)

\* an open has promoted an entry of the loaded list: same paths, another order
C1_Witness ==
    /\ loadPc = "done"
    /\ lastDone.added
    /\ Len(recentFolders) >= 2
    /\ Paths(recentFolders) = Paths(written.list)
    /\ recentFolders # written.list

\* C2: recentFolders, the stored record and every record on its way to the store
\* hold at most MAX_RECENT_FOLDERS entries, and an addRecentFolder call drops
\* no entry but the last one of a full list.
C2_Capacity ==
    /\ [](/\ Len(recentFolders) <= MAX_RECENT_FOLDERS
          /\ Len(Persisted) <= MAX_RECENT_FOLDERS
          /\ \A k \in 1..Len(ipc) :
                ipc[k].op = "setItem" =>
                   Len(JSONparse(ipc[k].text).value) <= MAX_RECENT_FOLDERS)
    /\ [][IsAddStep =>
            \A k \in 1..Len(recentFolders) :
               recentFolders[k].path \notin Paths(recentFolders') =>
                  k = MAX_RECENT_FOLDERS /\ k = Len(recentFolders)]_vars

\* an open of a folder not in a full list has dropped the list's last entry
C2_Witness ==
    /\ lastDone.added
    /\ Len(recentFolders) = MAX_RECENT_FOLDERS
    /\ Len(written.list) = MAX_RECENT_FOLDERS
    /\ Last(written.list).path \notin Paths(recentFolders)
    /\ \A k \in 1..(MAX_RECENT_FOLDERS - 1) : recentFolders[k + 1] = written.list[k]

\* the step belongs to handler i, an open whose launch fails or has failed
FailedOpenStep(i) ==
    \/ LaunchReturn(i, FALSE)
    \/ /\ i \in DOMAIN handlers
       /\ handlers[i].launched = "failed"
       /\ \E ok \in BOOLEAN : ToastReturn(i, ok)

\* C3: an open whose launch fails leaves the recency list as it was, in memory
\* and in storage (no step of it changes recentFolders, the stored item or the
\* calls on their way to the store), and it issues the failure toast.
C3_FailedLaunchKeepsList ==
    /\ [][\A i \in 1..MaxActions :
             FailedOpenStep(i) => UNCHANGED <<recentFolders, storage, ipc, written>>]_vars
    /\ [](/\ \A i \in 1..Len(handlers) :
                handlers[i].launched = "failed" =>
                   /\ "failure" \in handlers[i].notified
                   /\ "success" \notin handlers[i].notified
          /\ lastDone.launched = "failed" =>
                /\ "failure" \in lastDone.notified
                /\ ~lastDone.added)

\* an open of a folder has finished after its launch failed; nothing else ran
\* in the process, and the list is the loaded one
C3_Witness ==
    /\ loadPc = "done"
    /\ lastDone.kind = "open"
    /\ lastDone.launched = "failed"
    /\ "failure" \in lastDone.notified
    /\ handlers = << >>
    /\ ~mutated
    /\ recentFolders # << >>
    /\ recentFolders = Persisted

\* handler i, an open whose launch succeeded, finishes in this step
OpenCompletes(i) ==
    /\ i \in DOMAIN handlers
    /\ handlers[i].kind = "open"
    /\ handlers[i].launched = "ok"
    /\ Len(handlers') < Len(handlers)
    /\ \E ok \in BOOLEAN : ToastReturn(i, ok)

\* C4: whenever the launch of an open of f succeeded, f is at position 0 of
\* recentFolders when the open completes, whatever the success toast did.
C4_LaunchedIsPromoted ==
    [][\A i \in 1..MaxActions :
          OpenCompletes(i) =>
             /\ recentFolders' # << >>
             /\ Head(recentFolders').path = handlers[i].folder.path]_vars

\* the same for the opens whose success toast resolves: these do promote
C4_PromotedWhenToastResolves ==
    [][\A i \in 1..MaxActions :
          (OpenCompletes(i) /\ handlers[i].pc = "toastSuccess") =>
             /\ recentFolders' # << >>
             /\ Head(recentFolders').path = handlers[i].folder.path]_vars

\* C5: every addRecentFolder call has persisted its list when it returns (no
\* setItem is still on its way), and once the process has mutated the list the
\* stored record and recentFolders are the same list.
C5_PersistedWithMemory ==
    /\ \A k \in 1..Len(ipc) : ipc[k].op # "setItem"
    /\ mutated => Persisted = recentFolders

\* the same with nothing on its way: the load is over, the host has served
\* every call, no handler runs
C5_PersistedWhenQuiet ==
    (mutated /\ loadPc = "done" /\ ipc = << >> /\ handlers = << >>)
       => Persisted = recentFolders

\* C6: an action runs to completion before the next one is accepted: no two
\* handlers that mutate the recency list are in flight at the same time.
C6_OneHandlerAtATime == Len(handlers) <= 1

\* the opens take effect in the order they were accepted: the handler started
\* first is the one that adds first
C6_AddsInStartOrder ==
    [][\A i \in 1..MaxActions :
          (i \in DOMAIN handlers /\ reachesAdd(handlers[i], TRUE) /\ ToastReturn(i, TRUE))
             => i = 1]_vars

\* s without the entries whose path is p
RECURSIVE Without(_, _)
Without(s, p) ==
    IF s = << >> THEN << >>
    ELSE (IF Head(s).path = p THEN << >> ELSE << Head(s) >>) \o Without(Tail(s), p)

\* the first n entries of s
Take(s, n) == [k \in 1..(IF Len(s) < n THEN Len(s) ELSE n) |-> s[k]]

\* C7: inserting f1, f2, f1 (different paths) into the empty list gives
\* <<f1, f2>>; every insert equals "remove the entries with the folder's path,
\* prepend it, keep the first 10", so a promoted entry moves to position 0, the
\* list does not grow and the other entries keep their order.
C7_InsertOrPromote ==
    /\ []((/\ Len(inserted) = 3
           /\ inserted[1] = inserted[3]
           /\ inserted[1].path # inserted[2].path)
             => list = << inserted[1], inserted[2] >>)
    /\ [][inserted' # inserted =>
            LET f == Last(inserted') IN
            /\ list' = Take(<< f >> \o Without(list, f.path), MAX_RECENT_FOLDERS)
            /\ Head(list') = f
            /\ f.path \in Paths(list) =>
                  /\ Len(list') = Len(list)
                  /\ Tail(list') = Without(list, f.path)]_vars

\* f1, f2, f1 have been inserted into the empty list
C7_Witness ==
    /\ Len(inserted) = 3
    /\ inserted[1] = inserted[3]
    /\ inserted[1].path # inserted[2].path
    /\ inserted[1].name = inserted[2].name
    /\ list = << inserted[1], inserted[2] >>

\* C8: after N > 10 inserts of folders with pairwise distinct paths the list
\* holds exactly the 10 folders inserted last, the most recent first.
C8_TenMostRecent ==
    (Len(inserted) > MAX_RECENT_FOLDERS /\ NoDuplicatePaths(inserted)) =>
        /\ Len(list) = MAX_RECENT_FOLDERS
        /\ \A k \in 1..MAX_RECENT_FOLDERS : list[k] = inserted[Len(inserted) + 1 - k]

\* more than 11 distinct folders have been inserted
C8_Witness ==
    /\ Len(inserted) > MAX_RECENT_FOLDERS + 1
    /\ NoDuplicatePaths(inserted)
    /\ Len(list) = MAX_RECENT_FOLDERS
    /\ list[1] = Last(inserted)
    /\ inserted[1].path \notin Paths(list)

\* C9: a fresh process that loads a record written by addRecentFolder, with no
\* mutation since its start, has the written list as recentFolders.
C9_RoundTrip ==
    (/\ loadPc = "done"
     /\ loadResult \notin {"rejected"}
     /\ ~mutated
     /\ written.by = "addRecentFolder")
        => (loadResult = "parsed" /\ recentFolders = written.list)

\* a list written by an open of this behaviour was loaded by the next process
C9_Witness ==
    /\ loadPc = "done"
    /\ loadResult = "parsed"
    /\ ~mutated
    /\ written.by = "addRecentFolder"
    /\ \A k \in StoredCounts : written.list # StoredAfter(k)
    /\ Len(written.list) >= 2
    /\ recentFolders = written.list

\* C10: when the record is missing or does not parse, loadFolders still
\* returns (isLoading is reset), recentFolders stays empty and the scanned
\* folders are in the store.  (A process that has not mutated the list has
\* read the item the store still holds.)
C10_LoadDegrades ==
    (/\ loadPc = "done"
     /\ loadResult # "rejected"
     /\ ~mutated
     /\ storage \in {NoItem, Item(CorruptText)})
        => /\ ~isLoading
           /\ loadResult \in {"missing", "malformed"}
           /\ recentFolders = << >>
           /\ folders = allFolders(command)

\* a record that does not parse was read; the scan found folders
C10_Witness ==
    /\ loadResult = "malformed"
    /\ ~mutated
    /\ loadPc = "done"
    /\ recentFolders = << >>
    /\ folders # << >>
    /\ storage = Item(CorruptText)

\* C11: a process leaves Loading (also when a root is
\* missing or unreadable, the record is malformed or getItem is rejected), and
\* isLoading is reset only after the scan is in the store and getItem has
\* been answered.
C11_ReachesReady ==
    /\ [](~isLoading =>
             /\ loadPc = "done"
             /\ loadResult # "none"
             /\ folders = allFolders(command))
    /\ <>(~isLoading)

\* the load ended on a malformed record with a root missing from the disk
C11_Witness ==
    /\ ~isLoading
    /\ loadResult = "malformed"
    /\ ~existsSync(SEARCH_PATHS(command)[1])
    /\ folders # << >>

\* C12: the "All Folders" section holds no folder whose path is in the recent
\* list, and it holds every scanned folder whose path is not: each scanned path
\* is rendered in exactly one of the two sections.
C12_OthersDisjoint ==
    LET others == otherFolders(folders, recentFolders) IN
    /\ Paths(others) \cap Paths(recentFolders) = {}
    /\ Paths(others) \cup (Paths(folders) \cap Paths(recentFolders)) = Paths(folders)

\* the recent list holds a scanned folder and a deleted one, and other scanned
\* folders remain
C12_Witness ==
    /\ loadPc = "done"
    /\ Paths(folders) \cap Paths(recentFolders) # {}
    /\ Paths(recentFolders) \ Paths(folders) # {}
    /\ otherFolders(folders, recentFolders) # << >>
    /\ Len(otherFolders(folders, recentFolders)) < Len(folders)

\* the step is a call of handleClearRecentFolders
IsClearCall ==
    /\ Len(handlers') = Len(handlers) + 1
    /\ Last(handlers').kind = "clear"

\* the host serves a removeItem
IsRemoveServed ==
    /\ ipc # << >>
    /\ Head(ipc).op = "removeItem"
    /\ ipc' = Tail(ipc)

\* C13: a clear, from a list of any length and also straight after another
\* clear, leaves recentFolders empty and folders as they were and issues
\* removeItem; when the host serves it no stored record is left.
C13_ClearResets ==
    /\ [][IsClearCall =>
             /\ recentFolders' = << >>
             /\ folders' = folders
             /\ Len(ipc') = Len(ipc) + 1
             /\ Last(ipc').op = "removeItem"]_vars
    /\ [][IsRemoveServed => ~storage'.present]_vars

\* clear was called twice in a row on a loaded list, and both removeItem calls
\* have been served
C13_Witness ==
    /\ nacts = 2
    /\ lastDone.kind = "clear"
    /\ Len(handlers) = 1
    /\ handlers[1].kind = "clear"
    /\ ipc = << >>
    /\ recentFolders = << >>
    /\ ~storage.present
    /\ folders = allFolders(command)

\* C14: in both commands the path an open hands to the launcher is the folder's
\* workspace file when the folder holds one, and the folder's path otherwise.
C14_TargetIsResolved ==
    \A i \in DOMAIN handlers :
        handlers[i].kind = "open" =>
            LET workspaceFile == findWorkspaceFileInFolder(handlers[i].folder.path) IN
            handlers[i].target = IF workspaceFile.found
                                 THEN workspaceFile.path
                                 ELSE handlers[i].folder.path

\* the selection command is past getSelectedFinderItems
SelectionKnown == selection.pc \notin {"idle", "query"}

\* the toasts shown with the Success style
SummaryToasts ==
    { i \in DOMAIN selection.toasts : selection.toasts[i].style = "Success" }

\* C15: when getSelectedFinderItems returns no item (osascript failed, or printed
\* only blank lines) the first toast is "No items selected", no launch is
\* started and no summary is shown.
C15_EmptySelection ==
    (SelectionKnown /\ selection.items = << >>) =>
        /\ selection.pc # "launch"
        /\ selection.launches = << >>
        /\ selection.toasts # << >>
        /\ selection.toasts[1] = NoItemsToast
        /\ SummaryToasts = {}

\* osascript printed blank lines only and the command ended
C15_Witness ==
    /\ selection.pc = "done"
    /\ Len(selection.stdout) > 1
    /\ selection.items = << >>
    /\ selection.toasts = << NoItemsToast >>

\* C16: the launches are those of the items, in order, one per item; the
\* summary toast is shown, and the command ends, only when every item has had
\* its launch settled, whichever of them failed.
C16_EveryItemLaunched ==
    /\ Len(selection.launches) <= Len(selection.items)
    /\ \A i \in DOMAIN selection.launches :
          selection.launches[i].path = selection.items[i]
    /\ (SelectionKnown /\ selection.pc # "launch") =>
          Len(selection.launches) = Len(selection.items)
    /\ SummaryToasts # {} => /\ selection.items # << >>
                             /\ Len(selection.launches) = Len(selection.items)

\* the first launch failed, the later ones were still made, then the summary
C16_Witness ==
    /\ selection.pc = "done"
    /\ Len(selection.items) >= 2
    /\ ~selection.launches[1].ok
    /\ selection.launches[Len(selection.items)].ok
    /\ SummaryToasts # {}

\* C17: the summary reports as opened the number of launches that succeeded.
C17_SummaryCountsSuccesses ==
    \A i \in SummaryToasts :
        LET opened == Cardinality({ j \in DOMAIN selection.launches :
                                      selection.launches[j].ok })
            prefix == "Opened " \o ToString(opened) \o " "
            title  == selection.toasts[i].title
        IN  /\ Len(title) >= Len(prefix)
            /\ SubSeq(title, 1, Len(prefix)) = prefix

\* the positions in a folder's listing of the regular files named *.code-workspace
WorkspaceFilesAt(p) ==
    IF p \in DOMAIN Disk /\ Disk[p].readable
    THEN { i \in 1..Len(Disk[p].entries) :
             /\ Disk[p].entries[i].isFile
             /\ endsWith(Disk[p].entries[i].name, WorkspaceSuffix) }
    ELSE {}

\* C18: the launch target of a folder is the folder's path when the folder is
\* missing, unreadable or lists no regular file named *.code-workspace, and
\* else the folder's path joined with the name of the first such file of the
\* listing; a directory of that name and a file further down are never taken.
C18_ResolveTarget ==
    scan.pc = "resolved" =>
        LET p == scan.folder.path
            at == WorkspaceFilesAt(p)
            first == CHOOSE i \in at : \A j \in at : i <= j
        IN  scan.target = IF at = {} THEN p
                          ELSE p \o "/" \o Disk[p].entries[first].name

\* a folder listing a directory and two files named *.code-workspace resolves
\* to the first of the files
C18_Witness ==
    /\ scan.pc = "resolved"
    /\ Cardinality(WorkspaceFilesAt(scan.folder.path)) = 2
    /\ \E i \in 1..Len(Disk[scan.folder.path].entries) :
          /\ Disk[scan.folder.path].entries[i].isDirectory
          /\ endsWith(Disk[scan.folder.path].entries[i].name, WorkspaceSuffix)
    /\ scan.target = scan.folder.path \o "/x.code-workspace"

\* <<r, e>>: entry e of the listing of root r is a directory
ScannedDirs(roots) ==
    UNION { IF roots[r] \in DOMAIN Disk /\ Disk[roots[r]].readable
            THEN { << r, e >> : e \in { i \in 1..Len(Disk[roots[r]].entries) :
                                          Disk[roots[r]].entries[i].isDirectory } }
            ELSE {} : r \in 1..Len(roots) }

\* root order, then listing order
Earlier(k1, k2) == k1[1] < k2[1] \/ (k1[1] = k2[1] /\ k1[2] < k2[2])

\* C19: the scan of a sequence of roots yields one folder per directory entry
\* of the roots that exist and can be read, named after the entry, with the
\* root's path joined with the name as path, in root order and then listing
\* order; files, links, deeper entries and missing or unreadable roots add
\* nothing, and the roots after them are still scanned.
C19_ScanResult ==
    scan.pc # "idle" =>
        LET dirs == ScannedDirs(scan.roots) IN
        /\ Len(scan.result) = Cardinality(dirs)
        /\ \A k \in dirs :
              LET at == 1 + Cardinality({ k2 \in dirs : Earlier(k2, k) })
                  name == Disk[scan.roots[k[1]]].entries[k[2]].name
              IN  scan.result[at] = [name |-> name,
                                     path |-> scan.roots[k[1]] \o "/" \o name]

\* a missing root, then a readable one that lists a link between two
\* directories
C19_Witness ==
    /\ scan.pc = "scanned"
    /\ Len(scan.roots) = 2
    /\ scan.roots[1] \notin DOMAIN Disk
    /\ scan.roots[2] \in DOMAIN Disk
    /\ Len(scan.result) = 2
    /\ Len(Disk[scan.roots[2]].entries) = 3

\* the step is the continuation of loadFolders after the getItem await
IsLoadResume == loadPc = "getItem" /\ loadPc' = "done"

\* the host serves a setItem
IsSetServed ==
    /\ ipc # << >>
    /\ Head(ipc).op = "setItem"
    /\ ipc' = Tail(ipc)

\* C20: no addRecentFolder runs while isLoading is set; the end of the load drops
\* no entry from recentFolders; and, unless the load failed, a served setItem
\* that is below the capacity keeps every entry that was stored before it.
C20_LoadKeepsUpdates ==
    [][/\ IsAddStep => ~isLoading
       /\ IsLoadResume => Paths(recentFolders) \subseteq Paths(recentFolders')
       /\ (/\ IsSetServed
           /\ Len(Head(ipc).list) < MAX_RECENT_FOLDERS
           /\ ~LoadToast) =>
              Paths(Persisted) \subseteq Paths(Head(ipc).list)]_vars

====
